---------------------------- MODULE Spec2Model ----------------------------
(***************************************************************************)
(* A model of the serialimage crate: the channel-planar SerialImageBuffer *)
(* and its lookup tables (src/src/serialimage.rs), DynamicSerialImage and *)
(* its serialized form (src/src/dynamicserialimage.rs), ImageMetaData     *)
(* (src/src/imagemetadata.rs) and the exposure controller                 *)
(* OptimumExposureConfig (src/src/optimalexposure.rs).                    *)
(*                                                                         *)
(* Option<T> is a sequence of length 0 (None) or 1 (Some(v)).  A call is  *)
(* recorded in the history variable `last` with its arguments, the        *)
(* receiver it was made on and its outcome: Ok, Err, or Panic when the    *)
(* code aborts (panic!, unwrap() of None, an index out of bounds, an      *)
(* arithmetic overflow in a build that checks for it).                    *)
(***************************************************************************)
EXTENDS Integers, Sequences, FiniteSets, TLC

VARIABLES
    overflow_checks,  \* build profile: TRUE = debug (overflow panics), FALSE = release (wraps)
    img,              \* Option<SerialImageBuffer<T>>: the buffer the caller holds
    made,             \* the constructor call that built the buffer
    last,             \* the last call: [op, args, self, res]
    nops,             \* number of operations applied since construction
    cfg,              \* Option<OptimumExposureConfig>
    conv,             \* the call that converted the buffer to the packed image
    dimg,             \* Option<DynamicSerialImage>: the image the caller holds
    luts,             \* the statics R_LUT_U16, G_LUT_U16, B_LUT_U16: a Lazy cell each
    threads,          \* the threads that call into_luma, each with its position
    metadata,         \* Option<ImageMetaData>: the metadata object the caller holds
    attribs,          \* the object as first held, and the add_extended_attrib calls since
    trade,            \* the position of a call inside the binning trade, with its locals
    camera            \* the camera the controller drives: its gain, exposure and binning

\* the state outside the buffer, its call history and the exposure configuration
restVars == <<dimg, luts, threads, metadata, attribs, trade, camera>>

vars == <<overflow_checks, img, made, last, nops, cfg, conv, restVars>>

----------------------------------------------------------------------------
(* Bounds of the model *)

\* width and height are drawn from 0..MaxDim
MaxDim == 2
\* the interleaved vector given to from_vec has at most MaxLen elements
MaxLen == 8
\* a channel vector given to new has at most MaxChan elements
MaxChan == 2
\* a run applies at most MaxOps operations to the buffer it constructed
MaxOps == 1
\* threads that call into_luma concurrently
NumThreads == 2
\* add_extended_attrib is called at most MaxAttribs times on a metadata object
MaxAttribs == 3

----------------------------------------------------------------------------
(* Option, Result *)

None == <<>>
Some(v) == <<v>>
IsSome(o) == o # <<>>
Unwrap(o) == o[1]

Ok(v) == [tag |-> "Ok", val |-> v]
Err(e) == [tag |-> "Err", val |-> e]
Panic(e) == [tag |-> "Panic", val |-> e]

BoolToU8(b) == IF b THEN 1 ELSE 0

U16Max == 65535

\* usize::MAX; the model keeps 31 bits of the word
UsizeMax == 2147483647

\* a + b and a * b on usize in a build without overflow checks
WrappingAdd(a, b) == IF a > UsizeMax - b THEN a - (UsizeMax - b) - 1 ELSE a + b

RECURSIVE WrappingMul(_, _)
WrappingMul(a, b) ==
    IF b = 0 THEN 0
    ELSE LET half == WrappingMul(a, b \div 2)
             twice == WrappingAdd(half, half)
         IN IF b % 2 = 1 THEN WrappingAdd(twice, a) ELSE twice

\* a * b exceeds usize::MAX
MulOverflows(a, b) == b # 0 /\ a > UsizeMax \div b

\* width * height: Ok(product), or Panic in a build with overflow checks
Area(width, height, checks) ==
    IF MulOverflows(width, height)
    THEN IF checks THEN Panic("attempt to multiply with overflow")
         ELSE Ok(WrappingMul(width, height))
    ELSE Ok(width * height)

----------------------------------------------------------------------------
(* Pixel element types.  A u8 or u16 sample is its integer value; an f32  *)
(* sample is a fixed-point number in units of 1/FloatScale.               *)

Kinds == {"u8", "u16", "f32"}
FloatScale == 10000

PixelVals(kind) ==
    IF kind = "u8" THEN {0, 255}
    ELSE IF kind = "u16" THEN {0, 65535}
    ELSE {0, FloatScale}

\* the value new's channel vectors are filled with
FillVal(kind) == IF kind = "u8" THEN 255 ELSE IF kind = "u16" THEN 65535 ELSE FloatScale

SeqsUpTo(S, n) == UNION {[1..k -> S] : k \in 0..n}
Fill(n, v) == [i \in 1..n |-> v]

DefaultMeta ==
    [bin_x |-> 1, bin_y |-> 1, img_top |-> 0, img_left |-> 0, temperature |-> 0,
     exposure |-> 0, timestamp |-> 0, camera_name |-> "", gain |-> 0, offset |-> 0,
     min_gain |-> 0, max_gain |-> 0, extended_metadata |-> <<>>]

Metas == {None, Some(DefaultMeta)}

----------------------------------------------------------------------------
(* SerialImageBuffer<T> *)

Buffer(kind, meta, luma, red, green, blue, alpha, pixel_elems, width, height) ==
    [kind |-> kind, meta |-> meta, luma |-> luma, red |-> red, green |-> green,
     blue |-> blue, alpha |-> alpha, pixel_elems |-> pixel_elems,
     width |-> width, height |-> height]

ChannelNames == {"luma", "red", "green", "blue", "alpha"}

\* element k (0-based) of every pixel of an interleaved vector
\* a planar reading of data: the k-th block of size elements
PlaneOfBlocks(size, data, elems, k) == [i \in 1..size |-> data[k * size + i]]

Plane(size, data, elems, k) == [i \in 1..size |-> data[(i - 1) * elems + k + 1]]

from_vec_unsafe(size, data, elems) ==
    IF elems = 1 THEN
        [luma |-> Some(data), red |-> None, green |-> None, blue |-> None, alpha |-> None]
    ELSE IF elems = 2 THEN
        [luma |-> Some(Plane(size, data, 2, 0)), red |-> None, green |-> None,
         blue |-> None, alpha |-> Some(Plane(size, data, 2, 1))]
    ELSE IF elems = 3 THEN
        [luma |-> None, red |-> Some(Plane(size, data, 3, 0)),
         green |-> Some(Plane(size, data, 3, 1)), blue |-> Some(Plane(size, data, 3, 2)),
         alpha |-> None]
    ELSE
        [luma |-> None, red |-> Some(Plane(size, data, 4, 0)),
         green |-> Some(Plane(size, data, 4, 1)), blue |-> Some(Plane(size, data, 4, 2)),
         alpha |-> Some(Plane(size, data, 4, 3))]

from_vec(kind, width, height, data, checks) ==
    LET area == Area(width, height, checks) IN
    IF area.tag # "Ok" THEN area
    ELSE IF area.val = 0 THEN Err("Width and height must be greater than zero")
    ELSE LET pixel_elems == Len(data) \div area.val IN
        IF Len(data) # area.val * pixel_elems
        THEN Err("Data length must be equal to width * height * pixel elements")
        ELSE IF pixel_elems > 4 \/ pixel_elems = 0
        THEN Err("Invalid number of pixel elements")
        ELSE LET c == from_vec_unsafe(area.val, data, pixel_elems) IN
            Ok(Buffer(kind, None, c.luma, c.red, c.green, c.blue, c.alpha,
                      pixel_elems, width, height))

\* SerialImageBuffer<u8>::new and SerialImageBuffer<u16>::new (the same code)
new(kind, meta, luma, red, green, blue, alpha, width, height, checks) ==
    LET colors == BoolToU8(IsSome(red)) + BoolToU8(IsSome(green)) + BoolToU8(IsSome(blue))
        area == Area(width, height, checks)
    IN
    IF area.tag # "Ok" THEN area
    ELSE IF area.val = 0 THEN Err("Width and height must be greater than zero")
    ELSE IF colors > 0 /\ colors # 3 THEN Err("All color channels must be specified.")
    ELSE IF IsSome(luma) /\ colors > 0
    THEN Err("Luma and color channels cannot be specified at the same time")
    ELSE IF IsSome(luma) /\ Len(Unwrap(luma)) # area.val
    THEN Err("Length of luma channel must be equal to width * height")
    ELSE IF IsSome(red) /\ Len(Unwrap(red)) # area.val
    THEN Err("Length of red channel must be equal to width * height")
    ELSE IF IsSome(green) /\ Len(Unwrap(green)) # area.val
    THEN Err("Length of green channel must be equal to width * height")
    ELSE IF IsSome(blue) /\ Len(Unwrap(blue)) # area.val
    THEN Err("Length of blue channel must be equal to width * height")
    ELSE IF IsSome(alpha) /\ Len(Unwrap(alpha)) # area.val
    THEN Err("Length of alpha channel must be equal to width * height")
    ELSE LET pixel_elems == colors + BoolToU8(IsSome(luma)) + BoolToU8(IsSome(alpha)) IN
        Ok(Buffer(kind, meta, luma, red, green, blue, alpha, pixel_elems, width, height))

\* SerialImageBuffer<f32>::new
new_f32(meta, red, green, blue, alpha, width, height, checks) ==
    LET area == Area(width, height, checks) IN
    IF area.tag # "Ok" THEN area
    ELSE IF area.val = 0 THEN Err("Width and height must be greater than zero")
    ELSE IF Len(red) # area.val
    THEN Err("Length of red channel must be equal to width * height")
    ELSE IF Len(green) # area.val
    THEN Err("Length of green channel must be equal to width * height")
    ELSE IF Len(blue) # area.val
    THEN Err("Length of blue channel must be equal to width * height")
    ELSE IF IsSome(alpha) /\ Len(Unwrap(alpha)) # area.val
    THEN Err("Length of alpha channel must be equal to width * height")
    ELSE LET elems == IF IsSome(alpha) THEN 4 ELSE 3 IN
        Ok(Buffer("f32", meta, None, Some(red), Some(green), Some(blue), alpha,
                  elems, width, height))

is_luma(b) == b.pixel_elems = 1
is_rgb(b) == b.pixel_elems = 3

set_metadata(b, meta) == [b EXCEPT !.meta = meta]

\* the channels one after the other, each in full
InterleavePlanar(chs, n) ==
    [j \in 1..(n * Len(chs)) |-> chs[((j - 1) \div n) + 1][((j - 1) % n) + 1]]

\* the re-interleave loops of into_vec: element i of every channel in turn
Interleave(chs, n) ==
    [j \in 1..(n * Len(chs)) |-> chs[((j - 1) % Len(chs)) + 1][((j - 1) \div Len(chs)) + 1]]

\* into_vec(self): Ok(vector), or Panic where the code aborts
into_vec(b) ==
    LET n == b.width * b.height
        Build(chs) ==
            IF \E k \in 1..Len(chs) : ~IsSome(chs[k])
            THEN Panic("unwrap on None")
            ELSE IF \E k \in 1..Len(chs) : Len(Unwrap(chs[k])) < n
            THEN Panic("index out of bounds")
            ELSE Ok(Interleave([k \in 1..Len(chs) |-> Unwrap(chs[k])], n))
    IN
    IF n = 0 THEN Ok(<<>>)
    ELSE IF b.pixel_elems = 1 THEN
        IF IsSome(b.luma) THEN Ok(Unwrap(b.luma))
        ELSE Panic("unwrap on None")
    ELSE IF b.pixel_elems = 2 THEN Build(<<b.luma, b.alpha>>)
    ELSE IF b.pixel_elems = 3 THEN Build(<<b.red, b.green, b.blue>>)
    ELSE IF b.pixel_elems = 4 THEN Build(<<b.red, b.green, b.blue, b.alpha>>)
    ELSE Panic("Invalid number of elements")

----------------------------------------------------------------------------
(* Luma reduction.  A table entry is round(i * weight) computed in f32;   *)
(* the model rounds the exact product half away from zero, which agrees   *)
(* with the f32 tables on every sample value the model draws.             *)

RoundDiv(a, d) == (2 * a + d) \div (2 * d)
Min2(a, b) == IF a < b THEN a ELSE b
Min3(a, b, c) == Min2(a, Min2(b, c))

WeightScale == 10000
RedWeightLut == 2126
GreenWeightLut == 7152
BlueWeightLut == 722
RedWeightF32 == 2162
GreenWeightF32 == 7152
BlueWeightF32 == 722

get_red_lut_16(i) == RoundDiv(i * RedWeightLut, WeightScale)
get_green_lut_16(i) == RoundDiv(i * GreenWeightLut, WeightScale)
get_blue_lut_16(i) == RoundDiv(i * BlueWeightLut, WeightScale)

\* `x as u16` of a float: saturating
F32AsU16(x) == IF x < 0 THEN 0 ELSE IF x > U16Max THEN U16Max ELSE x

\* u8 -> u16: (x as u16) << 8
Shl8(x) == (x * 256) % (U16Max + 1)

\* the 16-bit index of a u8 or u16 sample into the lookup tables
LutIndex(kind, x) == IF kind = "u8" THEN Shl8(x) ELSE x

LutSum(kind, r, g, b) ==
    get_red_lut_16(LutIndex(kind, r)) + get_green_lut_16(LutIndex(kind, g))
        + get_blue_lut_16(LutIndex(kind, b))

F32Luma(r, g, b) ==
    F32AsU16(RoundDiv(RedWeightF32 * r + GreenWeightF32 * g + BlueWeightF32 * b,
                      WeightScale * FloatScale))

F32Rescale(x) == F32AsU16(RoundDiv(x * U16Max, FloatScale))

\* the luma vector into_luma computes: Ok(vector) or Panic
LumaOf(b, checks) ==
    IF is_luma(b) THEN
        IF ~IsSome(b.luma) THEN Panic("unwrap on None")
        ELSE LET sluma == Unwrap(b.luma) IN
            Ok([i \in 1..Len(sluma) |->
                   IF b.kind = "u8" THEN Shl8(sluma[i])
                   ELSE IF b.kind = "u16" THEN sluma[i]
                   ELSE F32Rescale(sluma[i])])
    ELSE IF is_rgb(b) THEN
        IF ~IsSome(b.red) \/ ~IsSome(b.green) \/ ~IsSome(b.blue)
        THEN Panic("unwrap on None")
        ELSE LET sred == Unwrap(b.red)
                 sgreen == Unwrap(b.green)
                 sblue == Unwrap(b.blue)
                 n == Min3(Len(sred), Len(sgreen), Len(sblue))
             IN
             IF b.kind = "f32"
             THEN Ok([i \in 1..n |-> F32Luma(sred[i], sgreen[i], sblue[i])])
             ELSE IF checks /\ \E i \in 1..n :
                                  LutSum(b.kind, sred[i], sgreen[i], sblue[i]) > U16Max
             THEN Panic("attempt to add with overflow")
             ELSE Ok([i \in 1..n |->
                         LutSum(b.kind, sred[i], sgreen[i], sblue[i]) % (U16Max + 1)])
    ELSE Panic("Cannot convert image")

\* new(..).unwrap()
UnwrapResult(r) == IF r.tag = "Ok" THEN r ELSE Panic("unwrap on Err")

into_luma(b, checks) ==
    LET luma == LumaOf(b, checks) IN
    IF luma.tag # "Ok" THEN luma
    ELSE UnwrapResult(new("u16", b.meta, Some(luma.val), None, None, None, None,
                          b.width, b.height, checks))

AlphaTo16(kind, a) ==
    [i \in 1..Len(a) |->
        IF kind = "u8" THEN Shl8(a[i])
        ELSE IF kind = "u16" THEN a[i]
        ELSE F32Rescale(a[i])]

into_luma_alpha(b, checks) ==
    LET im == into_luma(b, checks) IN
    IF im.tag # "Ok" THEN im
    ELSE LET alpha == IF IsSome(b.alpha) THEN Some(AlphaTo16(b.kind, Unwrap(b.alpha)))
                      ELSE None
         IN UnwrapResult(new("u16", im.val.meta, im.val.luma, None, None, None, alpha,
                             b.width, b.height, checks))

----------------------------------------------------------------------------
(* The packed image of the image crate.  An ImageBuffer<P, Vec<T>> is its *)
(* width, height, channels per pixel and raw vector; a DynamicImage is an *)
(* ImageBuffer tagged with its ColorType.                                  *)

ColorTypes ==
    {"L8", "La8", "Rgb8", "Rgba8", "L16", "La16", "Rgb16", "Rgba16", "Rgb32F", "Rgba32F"}

\* ColorType::channel_count
channel_count(color) ==
    IF color \in {"L8", "L16"} THEN 1
    ELSE IF color \in {"La8", "La16"} THEN 2
    ELSE IF color \in {"Rgb8", "Rgb16", "Rgb32F"} THEN 3
    ELSE 4

\* the element type of the variants of a ColorType
ColorKind(color) ==
    IF color \in {"L8", "La8", "Rgb8", "Rgba8"} THEN "u8"
    ELSE IF color \in {"L16", "La16", "Rgb16", "Rgba16"} THEN "u16"
    ELSE "f32"

\* ImageBuffer::from_raw: None when the vector is too short for the dimensions
from_raw(width, height, channels, data) ==
    IF Len(data) >= width * height * channels
    THEN Some([width |-> width, height |-> height, channels |-> channels, raw |-> data])
    ELSE None

\* DynamicImage::ImageLuma8(img) and the other variants
DynamicImage(color, im) ==
    [color |-> color, width |-> im.width, height |-> im.height, raw |-> im.raw]

\* the match arms of Into<DynamicImage>: the variant built for pixel_elems, if any
IntoColor(kind, pixel_elems) ==
    {c \in ColorTypes : ColorKind(c) = kind /\ channel_count(c) = pixel_elems}

\* impl Into<DynamicImage> for SerialImageBuffer<u8>, <u16>, <f32>
into_dynamic_image(b) ==
    LET data == into_vec(b) IN
    IF data.tag # "Ok" THEN data
    ELSE IF IntoColor(b.kind, b.pixel_elems) = {} THEN Panic("Pixel elements not supported")
    ELSE LET im == from_raw(b.width, b.height, b.pixel_elems, data.val) IN
         IF ~IsSome(im) THEN Panic("unwrap on None")
         ELSE Ok(DynamicImage(CHOOSE c \in IntoColor(b.kind, b.pixel_elems) : TRUE, Unwrap(im)))

\* impl TryFrom<DynamicImage> for SerialImageBuffer<u8>, <u16>, <f32>
try_from_dynamic_image(kind, image) ==
    IF image.color \notin ColorTypes \/ ColorKind(image.color) # kind
    THEN Err("Image type not supported")
    ELSE LET pixel_elems == channel_count(image.color)
             c == IF pixel_elems = 1
                  THEN [luma |-> Some(image.raw), red |-> None, green |-> None,
                        blue |-> None, alpha |-> None]
                  ELSE from_vec_unsafe(image.width * image.height, image.raw, pixel_elems)
         IN Ok(Buffer(kind, None, c.luma, c.red, c.green, c.blue, c.alpha,
                      pixel_elems, image.width, image.height))

\* the error of TryInto<ImageBuffer<..>> for a buffer of another channel count
ElemsError(channels) ==
    IF channels = 1 THEN "Image must have one element per pixel"
    ELSE IF channels = 2 THEN "Image must have two elements per pixel"
    ELSE "Image must have three elements per pixel"

\* impl TryInto<ImageBuffer<Luma<T>>>, <LumaA<T>>, <Rgb<T>> for SerialImageBuffer<T>,
\* for channels = 1, 2, 3
try_into_image_buffer(b, channels) ==
    IF b.pixel_elems # channels THEN Err(ElemsError(channels))
    ELSE IF b.width * b.height = 0 THEN Err("Image must have non-zero dimensions")
    ELSE IF ~IsSome(b.luma) THEN Panic("unwrap on None")
    ELSE LET im == from_raw(b.width, b.height, channels, Unwrap(b.luma)) IN
         IF ~IsSome(im) THEN Err("Failed to convert to image buffer")
         ELSE Ok(Unwrap(im))

\* impl From<ImageBuffer<Luma<T>>>, <LumaA<T>>, <Rgb<T>> for SerialImageBuffer<T>
from_image_buffer(kind, im) ==
    LET c == from_vec_unsafe(im.width * im.height, im.raw, im.channels) IN
    Buffer(kind, None, c.luma, c.red, c.green, c.blue, c.alpha,
           im.channels, im.width, im.height)

----------------------------------------------------------------------------
(* Operations on a buffer.  A run constructs one buffer (from_vec or new) *)
(* and then applies operations to it.                                      *)

NoCall == [op |-> "none", args |-> <<>>, self |-> None, res |-> Ok(<<>>)]

Call(op, args, self, res) == [op |-> op, args |-> args, self |-> self, res |-> res]

\* the constructor returned r
Constructed(c) ==
    /\ made' = c
    /\ last' = c
    /\ img' = IF c.res.tag = "Ok" THEN Some(c.res.val) ELSE None
    /\ nops' = 0
    /\ UNCHANGED <<restVars, overflow_checks, cfg, conv>>

FromVecOf(Dims) ==
    /\ last.op = "none"
    /\ \E kind \in Kinds, width \in Dims, height \in Dims :
       \E data \in SeqsUpTo(PixelVals(kind), MaxLen) :
          Constructed(Call("from_vec",
                           [kind |-> kind, width |-> width, height |-> height, data |-> data],
                           None, from_vec(kind, width, height, data, overflow_checks)))

FromVec == FromVecOf(0..MaxDim)

\* the channel arguments given to new: None, or a vector of any length up to MaxChan
ChannelArgs(kind) == {None} \cup {Some(Fill(n, FillVal(kind))) : n \in 0..MaxChan}

NewOf(Dims) ==
    /\ last.op = "none"
    /\ \E kind \in {"u8", "u16"}, meta \in Metas, width \in Dims, height \in Dims :
       \E luma \in ChannelArgs(kind), red \in ChannelArgs(kind), green \in ChannelArgs(kind),
          blue \in ChannelArgs(kind), alpha \in ChannelArgs(kind) :
          Constructed(Call("new",
                           [kind |-> kind, meta |-> meta, luma |-> luma, red |-> red,
                            green |-> green, blue |-> blue, alpha |-> alpha,
                            width |-> width, height |-> height],
                           None,
                           new(kind, meta, luma, red, green, blue, alpha, width, height,
                               overflow_checks)))

New == NewOf(0..MaxDim)

NewF32 ==
    /\ last.op = "none"
    /\ \E meta \in Metas, width \in 0..MaxDim, height \in 0..MaxDim :
       \E red \in ChannelArgs("f32"), green \in ChannelArgs("f32"),
          blue \in ChannelArgs("f32"), alpha \in ChannelArgs("f32") :
          /\ IsSome(red) /\ IsSome(green) /\ IsSome(blue)
          /\ Constructed(Call("new_f32",
                              [kind |-> "f32", meta |-> meta, red |-> red, green |-> green,
                               blue |-> blue, alpha |-> alpha,
                               width |-> width, height |-> height],
                              None,
                              new_f32(meta, Unwrap(red), Unwrap(green), Unwrap(blue), alpha,
                                      width, height, overflow_checks)))

\* the Luma, LumaA and Rgb image buffers from_raw accepts
ImageBuffers(kind) ==
    {Unwrap(from_raw(w, h, ch, data)) :
        <<w, h, ch, data>> \in
            {x \in (0..MaxDim) \X (0..MaxDim) \X (1..3) \X SeqsUpTo(PixelVals(kind), MaxLen) :
                IsSome(from_raw(x[1], x[2], x[3], x[4]))}}

FromImageBuffer ==
    /\ last.op = "none"
    /\ \E kind \in Kinds :
       \E im \in ImageBuffers(kind) :
          Constructed(Call("from_image_buffer", [kind |-> kind, image |-> im], None,
                           Ok(from_image_buffer(kind, im))))

\* an operation on the buffer the caller holds
CanOperate == IsSome(img) /\ nops < MaxOps

\* the operation returned r and left the caller with buffer b (None: consumed or aborted)
Operated(op, args, r, b) ==
    /\ last' = Call(op, args, img, r)
    /\ img' = b
    /\ nops' = nops + 1
    /\ UNCHANGED <<restVars, overflow_checks, made, cfg, conv>>

SetMetadata ==
    /\ CanOperate
    /\ \E meta \in Metas :
          Operated("set_metadata", meta, Ok(<<>>), Some(set_metadata(Unwrap(img), meta)))

\* What a caller does to a channel through the `&mut Vec<T>` that
\* get_mut_luma/red/green/blue/alpha hand out.
VecOps == {"push", "pop", "write"}

VecApply(v, m, x) ==
    IF m = "push" THEN Append(v, x)
    ELSE IF m = "pop" THEN (IF Len(v) = 0 THEN v ELSE SubSeq(v, 1, Len(v) - 1))
    ELSE IF Len(v) = 0 THEN v ELSE [v EXCEPT ![1] = x]

get_mut(b, ch, m) ==
    IF IsSome(b[ch])
    THEN [b EXCEPT ![ch] = Some(VecApply(Unwrap(b[ch]), m, FillVal(b.kind)))]
    ELSE b

GetMut ==
    /\ CanOperate
    /\ \E ch \in ChannelNames, m \in VecOps :
          /\ IsSome(Unwrap(img)[ch])
          /\ Operated("get_mut", <<ch, m>>, Ok(<<>>), Some(get_mut(Unwrap(img), ch, m)))

\* into_luma(&self) and into_luma_alpha(&self): the caller goes on with the result
IntoLuma ==
    /\ CanOperate
    /\ LET r == into_luma(Unwrap(img), overflow_checks) IN
       Operated("into_luma", <<>>, r, IF r.tag = "Ok" THEN Some(r.val) ELSE None)

IntoLumaAlpha ==
    /\ CanOperate
    /\ LET r == into_luma_alpha(Unwrap(img), overflow_checks) IN
       Operated("into_luma_alpha", <<>>, r, IF r.tag = "Ok" THEN Some(r.val) ELSE None)

\* into_vec(self) consumes the buffer
IntoVec ==
    /\ CanOperate
    /\ Operated("into_vec", <<>>, into_vec(Unwrap(img)), None)

\* Into<DynamicImage> consumes the buffer; the caller holds the packed image
IntoDynamicImage ==
    /\ CanOperate
    /\ LET c == Call("into_dynamic_image", <<>>, img, into_dynamic_image(Unwrap(img))) IN
       /\ last' = c
       /\ conv' = c
    /\ img' = None
    /\ nops' = nops + 1
    /\ UNCHANGED <<restVars, overflow_checks, made, cfg>>

\* TryFrom<DynamicImage> of the packed image the conversion has just returned
TryFromDynamicImage ==
    /\ last.op = "into_dynamic_image"
    /\ last.res.tag = "Ok"
    /\ \E kind \in Kinds :
          LET r == try_from_dynamic_image(kind, last.res.val) IN
          /\ last' = Call("try_from_dynamic_image", [kind |-> kind, image |-> last.res.val],
                          None, r)
          /\ img' = IF r.tag = "Ok" THEN Some(r.val) ELSE None
    /\ nops' = nops + 1
    /\ UNCHANGED <<restVars, overflow_checks, made, cfg, conv>>

\* TryInto<ImageBuffer<..>> consumes the buffer
TryIntoImageBuffer ==
    /\ CanOperate
    /\ \E channels \in 1..3 :
          Operated("try_into_image_buffer", [channels |-> channels],
                   try_into_image_buffer(Unwrap(img), channels), None)

----------------------------------------------------------------------------
(* The lookup tables of into_luma are statics behind once_cell::sync::Lazy. *)
(* A Lazy cell is incomplete, running (one thread is inside the            *)
(* initialiser) or complete; a thread that dereferences a cell that is    *)
(* running waits until it is complete.  Threads run into_luma on an RGB    *)
(* pixel: R_LUT_U16[r] + G_LUT_U16[g] + B_LUT_U16[b], left to right.      *)

Threads == 1..NumThreads

\* the order in which into_luma dereferences the statics
LutNames == <<"R_LUT_U16", "G_LUT_U16", "B_LUT_U16">>

\* the table indices the threads read
LutSamples == {0, 65535}

\* Lazy::new(get_red_lut_16), (get_green_lut_16), (get_blue_lut_16): the array
\* the initialiser of a static returns
LutInit(name) ==
    [i \in LutSamples |->
        IF name = "R_LUT_U16" THEN get_red_lut_16(i)
        ELSE IF name = "G_LUT_U16" THEN get_green_lut_16(i)
        ELSE get_blue_lut_16(i)]

\* a Lazy cell before its first use
LazyNew == [state |-> "incomplete", value |-> None, inits |-> 0]

\* the cell lets the caller run the initialiser (it leaves no room for a second one)
LazyClaimsInitAlways(cell) == cell.state # "complete"

LazyClaimsInit(cell) == cell.state = "incomplete"

ThreadNew == [pc |-> "deref", k |-> 1, seen |-> <<>>, waited |-> FALSE]

LutStep(t, name, cell, thread) ==
    /\ luts' = [luts EXCEPT ![name] = cell]
    /\ threads' = [threads EXCEPT ![t] = thread]
    /\ UNCHANGED <<overflow_checks, img, made, last, nops, cfg, conv, dimg, metadata, attribs, trade, camera>>

\* the thread at its next static
AtDeref(t) == threads[t].pc = "deref"

CellOf(t) == luts[LutNames[threads[t].k]]

\* first dereference of the static: the thread takes the cell and calls the initialiser
LazyStart(t) ==
    /\ AtDeref(t)
    /\ LazyClaimsInit(CellOf(t))
    /\ LutStep(t, LutNames[threads[t].k],
               [CellOf(t) EXCEPT !.state = "running", !.inits = @ + 1],
               [threads[t] EXCEPT !.pc = "init"])

\* the initialiser returned: the array is stored and the cell is complete
LazyFinish(t) ==
    /\ threads[t].pc = "init"
    /\ LutStep(t, LutNames[threads[t].k],
               [CellOf(t) EXCEPT !.state = "complete",
                                 !.value = Some(LutInit(LutNames[threads[t].k]))],
               [threads[t] EXCEPT !.pc = "read"])

\* another thread is inside the initialiser: the caller waits
LazyWait(t) ==
    /\ AtDeref(t)
    /\ CellOf(t).state = "running"
    /\ LutStep(t, LutNames[threads[t].k], CellOf(t),
               [threads[t] EXCEPT !.pc = "wait", !.waited = TRUE])

\* the cell is complete: the waiter, or a caller that finds it complete, goes on
LazyReady(t) ==
    /\ threads[t].pc = "wait" \/ AtDeref(t)
    /\ CellOf(t).state = "complete"
    /\ LutStep(t, LutNames[threads[t].k], CellOf(t), [threads[t] EXCEPT !.pc = "read"])

\* the index expression LUT[i]: the entry the thread reads, then the next static
LutRead(t) ==
    /\ threads[t].pc = "read"
    /\ \E i \in LutSamples :
          LET name == LutNames[threads[t].k]
              entry == IF IsSome(CellOf(t).value) THEN Some(Unwrap(CellOf(t).value)[i]) ELSE None
              rec == [name |-> name, index |-> i, entry |-> entry, state |-> CellOf(t).state]
          IN LutStep(t, name, CellOf(t),
                     [threads[t] EXCEPT !.seen = Append(@, rec),
                                        !.pc = IF threads[t].k = Len(LutNames) THEN "done" ELSE "deref",
                                        !.k = IF threads[t].k = Len(LutNames) THEN @ ELSE @ + 1])

----------------------------------------------------------------------------
(* ImageMetaData (src/src/imagemetadata.rs): the extended attributes.     *)

\* the (key, value) pairs given to add_extended_attrib
AttribPairs == {"EXPTIME", "FILTER"} \X {"1", "2"}

\* the metadata objects a caller starts from: the default, or one with other
\* field values and an attribute added earlier
MetaObjects ==
    {[DefaultMeta EXCEPT !.gain = g, !.camera_name = n, !.extended_metadata = ext] :
        <<g, n, ext>> \in {0, 5} \X {"", "cam"} \X SeqsUpTo(AttribPairs, 1)}

\* the list grows at the front (not what push does)
add_extended_attrib_front(meta, key, val) ==
    [meta EXCEPT !.extended_metadata = <<(<<key, val>>)>> \o @]

\* ImageMetaData::add_extended_attrib: Vec::push of (key, val)
add_extended_attrib(meta, key, val) ==
    [meta EXCEPT !.extended_metadata = Append(@, <<key, val>>)]

\* ImageMetaData::get_extended_data
get_extended_data(meta) == meta.extended_metadata

NoAttribs == [initial |-> None, calls |-> <<>>]

\* no call is inside the binning trade
TradeIdle == [pc |-> "idle"]

\* no camera is attached
CameraOff == [pc |-> "off"]

\* the caller takes a metadata object
HoldMetadata ==
    /\ metadata = None
    /\ \E m \in MetaObjects :
          /\ metadata' = Some(m)
          /\ attribs' = [initial |-> Some(m), calls |-> <<>>]
    /\ UNCHANGED <<overflow_checks, img, made, last, nops, cfg, conv, dimg, luts, threads, trade, camera>>

AddExtendedAttrib ==
    /\ IsSome(metadata)
    /\ Len(attribs.calls) < MaxAttribs
    /\ \E pair \in AttribPairs :
          /\ metadata' = Some(add_extended_attrib(Unwrap(metadata), pair[1], pair[2]))
          /\ attribs' = [attribs EXCEPT !.calls = Append(@, pair)]
    /\ UNCHANGED <<overflow_checks, img, made, last, nops, cfg, conv, dimg, luts, threads, trade, camera>>

\* nothing but the buffer exists yet
InitRest ==
    /\ dimg = None
    /\ metadata = None
    /\ attribs = NoAttribs
    /\ trade = TradeIdle
    /\ camera = CameraOff
    /\ luts = [name \in {LutNames[k] : k \in 1..Len(LutNames)} |-> LazyNew]
    /\ threads = [t \in Threads |-> ThreadNew]

InitImage ==
    /\ overflow_checks \in BOOLEAN
    /\ img = None
    /\ made = NoCall
    /\ last = NoCall
    /\ nops = 0
    /\ cfg = None
    /\ conv = NoCall
    /\ InitRest

NextImage ==
    \/ FromVec
    \/ New
    \/ NewF32
    \/ SetMetadata
    \/ GetMut
    \/ IntoLuma
    \/ IntoLumaAlpha
    \/ IntoVec

SpecImage == InitImage /\ [][NextImage]_vars

\* the constructors and the conversions to and from the packed image
NextPacked ==
    \/ FromVec
    \/ New
    \/ NewF32
    \/ FromImageBuffer
    \/ IntoDynamicImage
    \/ TryFromDynamicImage
    \/ TryIntoImageBuffer

SpecPacked == InitImage /\ [][NextPacked]_vars

\* the threads' steps through the lookup tables
NextLut ==
    \/ \E t \in Threads : LazyStart(t)
    \/ \E t \in Threads : LazyFinish(t)
    \/ \E t \in Threads : LazyWait(t)
    \/ \E t \in Threads : LazyReady(t)
    \/ \E t \in Threads : LutRead(t)

SpecLut == InitImage /\ [][NextLut]_vars

NextMetadata ==
    \/ HoldMetadata
    \/ AddExtendedAttrib

SpecMetadata == InitImage /\ [][NextMetadata]_vars

\* a dimension whose double exceeds usize::MAX (usize::MAX / 2 + 2)
HugeDim == UsizeMax \div 2 + 2

\* width and height are any usize: the small dimensions and a huge one
WideDims == (0..MaxDim) \cup {HugeDim}

\* the constructors alone, called with any usize dimensions
NextDims ==
    \/ FromVecOf(WideDims)
    \/ NewOf(WideDims)

SpecDims == InitImage /\ [][NextDims]_vars

\* black, a level just below half of full scale, and full scale
MidLevels(kind) ==
    IF kind = "u8" THEN {0, 127, 255}
    ELSE IF kind = "u16" THEN {0, 32702, 65535}
    ELSE {0, 4990, FloatScale}

\* from_vec of one RGB pixel
FromVecRgbPixel ==
    /\ last.op = "none"
    /\ \E kind \in Kinds : \E r \in MidLevels(kind), g \in MidLevels(kind), b \in MidLevels(kind) :
          Constructed(Call("from_vec",
                           [kind |-> kind, width |-> 1, height |-> 1, data |-> <<r, g, b>>],
                           None, from_vec(kind, 1, 1, <<r, g, b>>, overflow_checks)))

\* the luma of single RGB pixels of every element type
NextRgbLuma ==
    \/ FromVecRgbPixel
    \/ IntoLuma

SpecRgbLuma == InitImage /\ [][NextRgbLuma]_vars

----------------------------------------------------------------------------
(* DynamicSerialImage (src/src/dynamicserialimage.rs): a SerialImageBuffer *)
(* tagged with its element type.                                           *)

\* a ColorType outside the ten the crate names: the `_` arm of a match on the
\* non-exhaustive enum
OtherColor == "Other"

\* the packed images: a raw vector of exactly width * height * channels samples,
\* and an image of a colour type the crate does not name
DynamicImages ==
    {DynamicImage(c, Unwrap(from_raw(w, h, channel_count(c), Fill(w * h * channel_count(c), v)))) :
        <<c, w, h, v>> \in
            {x \in ColorTypes \X (0..MaxDim) \X (0..MaxDim) \X {0, 255, 65535, FloatScale} :
                x[4] \in PixelVals(ColorKind(x[1]))}}
    \cup {[color |-> OtherColor, width |-> w, height |-> h, raw |-> <<>>] :
             <<w, h>> \in (0..MaxDim) \X (0..MaxDim)}

\* DynamicSerialImage::U8(b), ::U16(b), ::F32(b)
DynamicSerialImage(variant, b) == [variant |-> variant, image |-> b]

\* impl From<DynamicImage> for DynamicSerialImage
from_dynamic_image(value) ==
    LET color == value.color IN
    IF color \in {"L8", "Rgb8", "Rgba8", "La8"}
    THEN LET b == UnwrapResult(try_from_dynamic_image("u8", value)) IN
         IF b.tag = "Ok" THEN Ok(DynamicSerialImage("U8", b.val)) ELSE b
    ELSE IF color \in {"L16", "Rgb16", "Rgba16", "La16"}
    THEN LET b == UnwrapResult(try_from_dynamic_image("u16", value)) IN
         IF b.tag = "Ok" THEN Ok(DynamicSerialImage("U16", b.val)) ELSE b
    ELSE IF color \in {"Rgb32F", "Rgba32F"}
    THEN LET b == UnwrapResult(try_from_dynamic_image("f32", value)) IN
         IF b.tag = "Ok" THEN Ok(DynamicSerialImage("F32", b.val)) ELSE b
    ELSE Panic("Unsupported image type")

\* DynamicSerialImage::from(image) on a packed image the caller built
FromDynamicImage ==
    /\ last.op = "none"
    /\ \E image \in DynamicImages :
          LET c == Call("from_dynamic_image", [image |-> image], None, from_dynamic_image(image)) IN
          /\ made' = c
          /\ last' = c
          /\ dimg' = IF c.res.tag = "Ok" THEN Some(c.res.val) ELSE None
    /\ nops' = 0
    /\ UNCHANGED <<overflow_checks, img, cfg, conv, luts, threads, metadata, attribs, trade, camera>>

NextDynamic ==
    \/ FromDynamicImage

SpecDynamic == InitImage /\ [][NextDynamic]_vars

----------------------------------------------------------------------------
(* std::time::Duration: whole seconds and nanoseconds below one second.   *)

NanosPerSec == 1000000000
NanosPerMicro == 1000

Duration(secs, nanos) == [secs |-> secs, nanos |-> nanos]
from_nanos(n) == Duration(n \div NanosPerSec, n % NanosPerSec)

DLt(a, b) == a.secs < b.secs \/ (a.secs = b.secs /\ a.nanos < b.nanos)
DGt(a, b) == DLt(b, a)
DGe(a, b) == ~DLt(a, b)

\* a Duration left as it is
DKeep(d) == d

\* Duration * 4 and Duration / 4 (integer division of the nanosecond count)
DMul4(d) ==
    Duration(d.secs * 4 + d.nanos \div (NanosPerSec \div 4),
             (d.nanos % (NanosPerSec \div 4)) * 4)
DDiv4(d) ==
    Duration(d.secs \div 4, (d.secs % 4) * (NanosPerSec \div 4) + d.nanos \div 4)

as_micros(d) == d.secs * (NanosPerSec \div NanosPerMicro) + d.nanos \div NanosPerMicro

----------------------------------------------------------------------------
(* OptimumExposureConfig.  An f32 fraction (percentile_pix, pixel_tgt,    *)
(* pixel_uncertainty) is a fixed-point number in units of 1/FracScale; a  *)
(* pixel level (fraction * 65535) is kept to 1/MilliScale of a count.     *)

FracScale == 10000000
MilliScale == 1000

\* the literals 1.6e-5, 1, 0 and 0.99999 of the source, in units of 1/FracScale
FracMin == 160
FracOne == 10000000
PercentileTop == 9999900

\* the literal 1e-5 the sample value is floored at: 1 / ValFloorInv
ValFloorInv == 100000

\* the f32 that is not a number: every ordered comparison with it is false, and
\* arithmetic on it gives it back.  It is encoded below every fraction.
NaN == 0 - UsizeMax
FLt(a, b) == a # NaN /\ b # NaN /\ a < b
FGt(a, b) == FLt(b, a)

\* a - b on usize in a build without overflow checks
WrappingSub(a, b) == IF a >= b THEN a - b ELSE UsizeMax - (b - a) + 1

config_new(percentile_pix, pixel_tgt, pixel_tol, pixel_exclusion, min_exposure, max_exposure, max_bin) ==
    IF DGe(min_exposure, max_exposure) THEN None
    ELSE Some([percentile_pix |-> percentile_pix, pixel_tgt |-> pixel_tgt,
               pixel_uncertainty |-> pixel_tol, min_allowed_exp |-> min_exposure,
               max_allowed_exp |-> max_exposure, max_allowed_bin |-> max_bin,
               pixel_exclusion |-> pixel_exclusion])

\* the checks at the head of find_optimum_exposure: the error returned, or ""
\* when the input passes them all
Validate(c, n) ==
    IF FLt(c.pixel_tgt, FracMin) \/ FGt(c.pixel_tgt, FracOne)
    THEN "Target pixel value must be between 1.6e-5 and 1"
    ELSE IF FLt(c.pixel_uncertainty, FracMin) \/ FGt(c.pixel_uncertainty, FracOne)
    THEN "Pixel uncertainty must be between 1.6e-5 and 1"
    ELSE IF FLt(c.percentile_pix, 0) \/ FGt(c.percentile_pix, FracOne)
    THEN "Percentile must be between 0 and 1"
    ELSE IF DGe(c.min_allowed_exp, c.max_allowed_exp)
    THEN "Minimum allowed exposure must be less than maximum allowed exposure"
    ELSE IF c.pixel_exclusion > n
    THEN "Pixel exclusion must be less than the number of pixels"
    ELSE ""

\* fraction * 65535f32, to 1/MilliScale of a count
ToLevel(frac) ==
    IF frac = NaN THEN NaN
    ELSE
    (frac \div (FracScale \div MilliScale)) * U16Max
        + ((frac % (FracScale \div MilliScale)) * U16Max) \div (FracScale \div MilliScale)

\* img.sort()
RECURSIVE Insert(_, _)
Insert(s, x) ==
    IF s = <<>> THEN <<x>>
    ELSE IF x <= Head(s) THEN <<x>> \o s
    ELSE <<Head(s)>> \o Insert(Tail(s), x)

\* the samples left in the order given
Unsorted(s) == s

RECURSIVE Sort(_)
Sort(s) == IF s = <<>> THEN <<>> ELSE Insert(Sort(Tail(s)), Head(s))

\* (percentile_pix * m as f32).floor() as usize; the cast takes NaN to 0
PercentileIndex(percentile_pix, m) ==
    IF percentile_pix = NaN THEN 0
    ELSE IF m < FracScale THEN (percentile_pix * m) \div FracScale
    ELSE percentile_pix * (m \div FracScale)

\* the index the control value is read from: Ok(coord) or Panic
Coord(c, n, checks) ==
    IF n = 0 /\ checks THEN Panic("attempt to subtract with overflow")
    ELSE LET m == WrappingSub(n, 1)
             coord == IF FGt(c.percentile_pix, PercentileTop) THEN m
                      ELSE PercentileIndex(c.percentile_pix, m)
         IN
         IF coord < c.pixel_exclusion
         THEN IF m < c.pixel_exclusion /\ checks
              THEN Panic("attempt to subtract with overflow")
              ELSE Ok(WrappingSub(m, c.pixel_exclusion))
         ELSE Ok(coord)

\* imgvec.get(coord)
GetVal(sorted, coord) ==
    IF coord < Len(sorted) THEN Some(sorted[coord + 1]) ELSE None

\* Duration::from_secs_f64(pixel_tgt * exposure.as_micros() * 1e-6 / val), truncated
\* to the nanosecond; val is a whole sample, or 0 for any value floored to 1e-5.
\* from_secs_f64 panics on a NaN.
TargetExposure(tgt_level, exposure, val) ==
    IF tgt_level = NaN THEN Panic("cannot convert float seconds to Duration")
    ELSE
    LET x == tgt_level * as_micros(exposure) IN
    IF val = 0
    THEN Ok(Duration(x \div (NanosPerSec \div ValFloorInv),
                     (x % (NanosPerSec \div ValFloorInv)) * ValFloorInv))
    ELSE Ok(from_nanos(x \div val))

\* the halving loop
RECURSIVE HalveLoop(_, _, _)
HalveLoop(tgt_exp, bin, max_allowed_exp) ==
    IF DLt(tgt_exp, max_allowed_exp) /\ bin > 2
    THEN HalveLoop(DMul4(tgt_exp), bin \div 2, max_allowed_exp)
    ELSE Ok([exp |-> tgt_exp, bin |-> bin])

\* the doubling loop; bin_ * 2 is a u16 product
RECURSIVE DoubleLoop(_, _, _, _, _)
DoubleLoop(tgt_exp, bin, max_allowed_exp, max_allowed_bin, checks) ==
    IF ~DGt(tgt_exp, max_allowed_exp) THEN Ok([exp |-> tgt_exp, bin |-> bin])
    ELSE IF bin * 2 > U16Max /\ checks THEN Panic("attempt to multiply with overflow")
    ELSE IF (bin * 2) % (U16Max + 1) <= max_allowed_bin
    THEN DoubleLoop(DDiv4(tgt_exp), (bin * 2) % (U16Max + 1), max_allowed_exp,
                    max_allowed_bin, checks)
    ELSE Ok([exp |-> tgt_exp, bin |-> bin])

BinningTrade(target_exposure, bin, max_allowed_exp, max_allowed_bin, checks) ==
    IF DLt(target_exposure, max_allowed_exp)
    THEN HalveLoop(target_exposure, bin, max_allowed_exp)
    ELSE DoubleLoop(target_exposure, bin, max_allowed_exp, max_allowed_bin, checks)

\* a clamp from above only
ClampExposureAbove(e, lo, hi) == IF DGt(e, hi) THEN hi ELSE e

ClampExposure(e, lo, hi) ==
    LET a == IF DGt(e, hi) THEN hi ELSE e IN IF DLt(a, lo) THEN lo ELSE a

ClampBin(bin, max_allowed_bin) ==
    LET a == IF bin < 1 THEN 1 ELSE bin IN IF a > max_allowed_bin THEN max_allowed_bin ELSE a

Abs(x) == IF x < 0 THEN 0 - x ELSE x

\* a dead band of a quarter of the width
InDeadBandQuarter(tgt_level, unc_level, got) ==
    IF tgt_level = NaN \/ unc_level = NaN THEN FALSE
    ELSE IF IsSome(got) THEN Abs(tgt_level - Unwrap(got) * MilliScale) * 4 < unc_level
    ELSE tgt_level * 4 <= unc_level

\* |pixel_tgt - val| < pixel_uncertainty, on levels; a failed lookup reads 1e-5,
\* which is below 1/MilliScale: tgt - 1e-5 < unc iff tgt <= unc
InDeadBand(tgt_level, unc_level, got) ==
    IF tgt_level = NaN \/ unc_level = NaN THEN FALSE
    ELSE IF IsSome(got) THEN Abs(tgt_level - Unwrap(got) * MilliScale) < unc_level
    ELSE tgt_level <= unc_level

\* max_allowed_bin after its normalisation
MaxAllowedBin(c) == IF c.max_allowed_bin < 2 THEN 1 ELSE c.max_allowed_bin

\* the sort and the lookup of the control value: Ok(imgvec.get(coord)) or Panic
ControlValue(c, image, checks) ==
    LET sorted == Sort(image)
        coord == Coord(c, Len(sorted), checks)
    IN
    IF coord.tag # "Ok" THEN coord ELSE Ok(GetVal(sorted, coord.val))

\* the estimate of the exposure from the control value, floored at 1e-5
Estimate(c, got, exposure) ==
    TargetExposure(ToLevel(c.pixel_tgt), exposure, IF IsSome(got) THEN Unwrap(got) ELSE 0)

\* the trade of binning against exposure, made when change_bin
Trade(c, target_exposure, bin, checks) ==
    IF ~(MaxAllowedBin(c) < 2)
    THEN BinningTrade(target_exposure, bin, c.max_allowed_exp, MaxAllowedBin(c), checks)
    ELSE Ok([exp |-> target_exposure, bin |-> bin])

find_optimum_exposure(c, image, exposure, bin, checks) ==
    LET err == Validate(c, Len(image)) IN
    IF err # "" THEN Err(err)
    ELSE
    LET got == ControlValue(c, image, checks) IN
    IF got.tag # "Ok" THEN got
    ELSE IF InDeadBand(ToLevel(c.pixel_tgt), ToLevel(c.pixel_uncertainty), got.val)
    THEN Ok(<<exposure, bin>>)
    ELSE
    LET target_exposure == Estimate(c, got.val, exposure) IN
    IF target_exposure.tag # "Ok" THEN target_exposure
    ELSE
    LET traded == Trade(c, target_exposure.val, bin, checks) IN
    IF traded.tag # "Ok" THEN traded
    ELSE Ok(<<ClampExposure(traded.val.exp, c.min_allowed_exp, c.max_allowed_exp),
              ClampBin(traded.val.bin, MaxAllowedBin(c))>>)

----------------------------------------------------------------------------
(* Calls of the exposure controller.  A run builds one configuration and  *)
(* makes one call of find_optimum_exposure with it.                       *)

\* at most MaxSamples luminance samples are given to a call
MaxSamples == 3

SampleVals == {0, 32768, 65535}

ConfigNew(Ps, Ts, Us, Xs, Mins, Maxs, Bins) ==
    /\ last.op = "none"
    /\ \E percentile_pix \in Ps, pixel_tgt \in Ts, pixel_tol \in Us, pixel_exclusion \in Xs,
          min_exposure \in Mins, max_exposure \in Maxs, max_bin \in Bins :
          LET r == config_new(percentile_pix, pixel_tgt, pixel_tol, pixel_exclusion,
                              from_nanos(min_exposure), from_nanos(max_exposure), max_bin)
          IN
          /\ cfg' = r
          /\ last' = Call("config_new",
                          [percentile_pix |-> percentile_pix, pixel_tgt |-> pixel_tgt,
                           pixel_tol |-> pixel_tol, pixel_exclusion |-> pixel_exclusion,
                           min_exposure |-> from_nanos(min_exposure),
                           max_exposure |-> from_nanos(max_exposure), max_bin |-> max_bin],
                          None, r)
    /\ UNCHANGED <<restVars, overflow_checks, img, made, nops, conv>>

FindOptimumExposure(Images, Exposures, Bins) ==
    /\ last.op = "config_new"
    /\ IsSome(cfg)
    /\ \E image \in Images, exposure \in Exposures, bin \in Bins :
          last' = Call("find_optimum_exposure",
                       [img |-> image, exposure |-> from_nanos(exposure), bin |-> bin],
                       cfg,
                       find_optimum_exposure(Unwrap(cfg), image, from_nanos(exposure), bin,
                                             overflow_checks))
    /\ UNCHANGED <<restVars, overflow_checks, img, made, nops, cfg, conv>>

InitExposure ==
    /\ overflow_checks \in BOOLEAN
    /\ img = None
    /\ made = NoCall
    /\ last = NoCall
    /\ nops = 0
    /\ cfg = None
    /\ conv = NoCall
    /\ InitRest

\* configurations the validation lets through, with every kind of sample vector,
\* exposure and binning
ConfigNewValid ==
    ConfigNew({NaN, 0, FracOne}, {NaN, FracMin, 5000000}, {NaN, FracMin, 500000}, 0..MaxSamples,
              {0, 2000}, {1, 16000}, {1, 4, 65535})

FindAny ==
    FindOptimumExposure(SeqsUpTo(SampleVals, MaxSamples), {2000, 20000}, {0, 1, 4, 128})

NextExposure ==
    \/ ConfigNewValid
    \/ FindAny

SpecExposure == InitExposure /\ [][NextExposure]_vars

\* configurations on both sides of every limit of the validation, NaN among them
ConfigNewAny ==
    ConfigNew({NaN, 0 - 1, 0, FracOne, FracOne + 1},
              {NaN, 0, FracMin - 1, FracMin, FracOne, FracOne + 1},
              {NaN, FracMin - 1, FracMin, FracOne, FracOne + 1},
              0..(MaxSamples + 1), {0, 2000}, {1, 16000}, {1})

FindFew ==
    FindOptimumExposure(SeqsUpTo({0, 65535}, MaxSamples), {2000}, {1})

NextValidation ==
    \/ ConfigNewAny
    \/ FindFew

SpecValidation == InitExposure /\ [][NextValidation]_vars

\* configurations with percentiles between the ends, with and without binning, and
\* calls with exposures that are and are not whole microseconds, on every bin kind
ConfigNewControl ==
    ConfigNew({0, 5000000, PercentileTop, PercentileTop + 1, FracOne}, {5000000}, {FracMin},
              0..MaxSamples, {0, 2000}, {16000}, {0, 1, 4, 16})

FindControl ==
    FindOptimumExposure(SeqsUpTo(SampleVals, MaxSamples), {2000, 2500}, {0, 1, 3, 4, 8})

NextControl ==
    \/ ConfigNewControl
    \/ FindControl

SpecControl == InitExposure /\ [][NextControl]_vars

----------------------------------------------------------------------------
(* Serialize and Deserialize of DynamicSerialImage: the derived impls     *)
(* written out for serde_json (to_string, from_str) as lib.rs uses them.   *)
(* A JSON value is null, a number, a string, an array or an object.  An   *)
(* enum value is an object with the variant's name as its only key, a     *)
(* struct is an object of its fields, an Option is null or the value, a   *)
(* Vec or tuple is an array, a Duration is {secs, nanos}, a SystemTime is *)
(* {secs_since_epoch, nanos_since_epoch}; a float that is not finite is   *)
(* written as null.                                                        *)

JsonNull == [json |-> "null"]
JsonNum(n) == [json |-> "number", val |-> n]
JsonStr(x) == [json |-> "string", val |-> x]
JsonArr(xs) == [json |-> "array", val |-> xs]
JsonObj(fields) == [json |-> "object", val |-> fields]

\* DynamicSerialImage::U8, ::U16, ::F32 of an element type, and back
VariantOf(kind) == IF kind = "u8" THEN "U8" ELSE IF kind = "u16" THEN "U16" ELSE "F32"
KindOf(variant) == IF variant = "U8" THEN "u8" ELSE IF variant = "U16" THEN "u16" ELSE "f32"

\* impl From<SerialImageBuffer<T>> for DynamicSerialImage
from_buffer(b) == DynamicSerialImage(VariantOf(b.kind), b)

\* a sample or the temperature: f32 goes through the float formatter
ser_elem(kind, x) == IF kind = "f32" /\ x = NaN THEN JsonNull ELSE JsonNum(x)

de_elem(kind, j) ==
    IF j.json = "number" THEN Ok(j.val) ELSE Err("invalid type: null, expected a number")

ser_option_vec(kind, o) ==
    IF IsSome(o)
    THEN JsonArr([i \in 1..Len(Unwrap(o)) |-> ser_elem(kind, Unwrap(o)[i])])
    ELSE JsonNull

de_option_vec(kind, j) ==
    IF j.json = "null" THEN Ok(None)
    ELSE LET elems == [i \in 1..Len(j.val) |-> de_elem(kind, j.val[i])] IN
         IF \E i \in 1..Len(elems) : elems[i].tag # "Ok"
         THEN Err("invalid type: null, expected a number")
         ELSE Ok(Some([i \in 1..Len(elems) |-> elems[i].val]))

\* impl Serialize for SystemTime: an error for a time before UNIX_EPOCH
ser_timestamp(t) ==
    IF t < 0 THEN Err("SystemTime must be later than UNIX_EPOCH")
    ELSE Ok(JsonObj([secs_since_epoch |-> JsonNum(t), nanos_since_epoch |-> JsonNum(0)]))

ser_pair(pair) == JsonArr(<<JsonStr(pair[1]), JsonStr(pair[2])>>)
de_pair(j) == <<j.val[1].val, j.val[2].val>>

\* #[derive(Serialize)] struct ImageMetaData
ser_meta(m) ==
    LET timestamp == ser_timestamp(m.timestamp) IN
    IF timestamp.tag # "Ok" THEN timestamp
    ELSE Ok(JsonObj(
        [bin_x |-> JsonNum(m.bin_x), bin_y |-> JsonNum(m.bin_y),
         img_top |-> JsonNum(m.img_top), img_left |-> JsonNum(m.img_left),
         temperature |-> ser_elem("f32", m.temperature),
         exposure |-> JsonObj([secs |-> JsonNum(m.exposure), nanos |-> JsonNum(0)]),
         timestamp |-> timestamp.val,
         camera_name |-> JsonStr(m.camera_name),
         gain |-> JsonNum(m.gain), offset |-> JsonNum(m.offset),
         min_gain |-> JsonNum(m.min_gain), max_gain |-> JsonNum(m.max_gain),
         extended_metadata |->
             JsonArr([i \in 1..Len(m.extended_metadata) |-> ser_pair(m.extended_metadata[i])])]))

\* #[derive(Deserialize)] struct ImageMetaData
de_meta(j) ==
    LET f == j.val
        temperature == de_elem("f32", f.temperature)
    IN
    IF temperature.tag # "Ok" THEN temperature
    ELSE Ok([bin_x |-> f.bin_x.val, bin_y |-> f.bin_y.val,
             img_top |-> f.img_top.val, img_left |-> f.img_left.val,
             temperature |-> temperature.val,
             exposure |-> f.exposure.val.secs.val,
             timestamp |-> f.timestamp.val.secs_since_epoch.val,
             camera_name |-> f.camera_name.val,
             gain |-> f.gain.val, offset |-> f.offset.val,
             min_gain |-> f.min_gain.val, max_gain |-> f.max_gain.val,
             extended_metadata |->
                 [i \in 1..Len(f.extended_metadata.val) |-> de_pair(f.extended_metadata.val[i])]])

\* #[derive(Serialize)] struct SerialImageBuffer<T> with its SerialImageInternal<T>
ser_buffer(b) ==
    LET meta == IF IsSome(b.meta) THEN ser_meta(Unwrap(b.meta)) ELSE Ok(JsonNull) IN
    IF meta.tag # "Ok" THEN meta
    ELSE Ok(JsonObj(
        [meta |-> meta.val,
         data |-> JsonObj([luma |-> ser_option_vec(b.kind, b.luma),
                           red |-> ser_option_vec(b.kind, b.red),
                           green |-> ser_option_vec(b.kind, b.green),
                           blue |-> ser_option_vec(b.kind, b.blue),
                           alpha |-> ser_option_vec(b.kind, b.alpha),
                           pixel_elems |-> JsonNum(b.pixel_elems)]),
         width |-> JsonNum(b.width),
         height |-> JsonNum(b.height)]))

\* #[derive(Deserialize)] struct SerialImageBuffer<T>
de_buffer(kind, j) ==
    LET f == j.val
        d == f.data.val
        meta == IF f.meta.json = "null" THEN Ok(None)
                ELSE LET m == de_meta(f.meta) IN IF m.tag = "Ok" THEN Ok(Some(m.val)) ELSE m
        chan == [ch \in ChannelNames |-> de_option_vec(kind, d[ch])]
    IN
    IF meta.tag # "Ok" THEN meta
    ELSE IF \E ch \in ChannelNames : chan[ch].tag # "Ok"
    THEN Err("invalid type: null, expected a number")
    ELSE Ok(Buffer(kind, meta.val, chan.luma.val, chan.red.val, chan.green.val,
                   chan.blue.val, chan.alpha.val, d.pixel_elems.val, f.width.val, f.height.val))

\* serde_json::to_string(&DynamicSerialImage)
to_string(d) ==
    LET b == ser_buffer(d.image) IN
    IF b.tag # "Ok" THEN b
    ELSE Ok(JsonObj([v \in {d.variant} |-> b.val]))

\* serde_json::from_str::<DynamicSerialImage>
from_str(j) ==
    LET variant == CHOOSE v \in DOMAIN j.val : TRUE
        b == de_buffer(KindOf(variant), j.val[variant])
    IN IF b.tag # "Ok" THEN b ELSE Ok(DynamicSerialImage(variant, b.val))

\* a float compares unequal to everything when it is NaN
HasNaN(d) ==
    \/ IsSome(d.image.meta) /\ Unwrap(d.image.meta).temperature = NaN
    \/ /\ d.variant = "F32"
       /\ \E ch \in ChannelNames :
             /\ IsSome(d.image[ch])
             /\ \E i \in 1..Len(Unwrap(d.image[ch])) : Unwrap(d.image[ch])[i] = NaN

\* #[derive(PartialEq)] on DynamicSerialImage: a == b
PartialEq(a, b) == a = b /\ ~HasNaN(a)

\* the samples of an image: those of the element type, and NaN for f32
SerdeVals(kind) == IF kind = "f32" THEN PixelVals(kind) \cup {NaN} ELSE PixelVals(kind)

\* the metadata of an image: none, the default, a temperature that is not a
\* number, a time before the epoch, extended attributes with a repeated key
SerdeMetas ==
    {None, Some(DefaultMeta),
     Some([DefaultMeta EXCEPT !.temperature = NaN]),
     Some([DefaultMeta EXCEPT !.timestamp = 0 - 1]),
     Some([DefaultMeta EXCEPT !.timestamp = 1, !.extended_metadata =
              <<(<<"EXPTIME", "2">>), (<<"FILTER", "1">>), (<<"EXPTIME", "1">>)>>])}

\* the caller builds a buffer with from_vec and set_metadata and wraps it
HoldDynamicSerialImage ==
    /\ last.op = "none"
    /\ \E kind \in Kinds, width \in 1..MaxDim, height \in 1..MaxDim, n \in 1..MaxLen :
       \E v \in SerdeVals(kind), x \in SerdeVals(kind), meta \in SerdeMetas :
          LET data == [Fill(n, v) EXCEPT ![1] = x]
              r == from_vec(kind, width, height, data, overflow_checks)
          IN /\ r.tag = "Ok"
             /\ LET d == from_buffer(set_metadata(r.val, meta))
                    c == Call("from_buffer", [image |-> set_metadata(r.val, meta)], None, Ok(d))
                IN /\ made' = c
                   /\ last' = c
                   /\ dimg' = Some(d)
    /\ nops' = 0
    /\ UNCHANGED <<overflow_checks, img, cfg, conv, luts, threads, metadata, attribs, trade, camera>>

\* serde_json::to_string(&img)
SerdeToString ==
    /\ last.op = "from_buffer"
    /\ last' = Call("to_string", <<>>, dimg, to_string(Unwrap(dimg)))
    /\ nops' = nops + 1
    /\ UNCHANGED <<overflow_checks, img, made, cfg, conv, restVars>>

\* serde_json::from_str(&val) of the string to_string returned
SerdeFromStr ==
    /\ last.op = "to_string"
    /\ last.res.tag = "Ok"
    /\ last' = Call("from_str", [encoded |-> last.res.val], dimg, from_str(last.res.val))
    /\ nops' = nops + 1
    /\ UNCHANGED <<overflow_checks, img, made, cfg, conv, restVars>>

NextSerde ==
    \/ HoldDynamicSerialImage
    \/ SerdeToString
    \/ SerdeFromStr

SpecSerde == InitImage /\ [][NextSerde]_vars

----------------------------------------------------------------------------
(* Properties of the buffer *)

Populated(b) == {ch \in ChannelNames : IsSome(b[ch])}

LegalCombinations ==
    {{"luma"}, {"luma", "alpha"}, {"red", "green", "blue"}, {"red", "green", "blue", "alpha"}}

\* one of the four planar channel combinations, and pixel_elems counts its channels
LegalBuffer(b) ==
    /\ Populated(b) \in LegalCombinations
    /\ b.pixel_elems = Cardinality(Populated(b))

\* every populated channel vector has width * height elements
ChannelLengthsOk(b) ==
    \A ch \in ChannelNames : IsSome(b[ch]) => Len(Unwrap(b[ch])) = b.width * b.height

\* the last operation was applied to the buffer exactly as its constructor returned it
OnConstructed == made.res.tag = "Ok" /\ last.self = Some(made.res.val)

\* the arguments from_vec documents as valid
FromVecValid(a) ==
    /\ a.width > 0
    /\ a.height > 0
    /\ \E c \in 1..4 : Len(a.data) = a.width * a.height * c

\* C1: for every width > 0, height > 0, channel count 1..4 and data of length
\* width*height*channels, from_vec succeeds, and into_vec of its result is data.
C1_FromVecIntoVecRoundTrip ==
    /\ (made.op = "from_vec" /\ FromVecValid(made.args)) => made.res.tag = "Ok"
    /\ (last.op = "into_vec" /\ made.op = "from_vec" /\ OnConstructed)
          => last.res = Ok(made.args.data)

\* a four-channel buffer of two pixels with differing samples went through into_vec
C1_Witness ==
    /\ last.op = "into_vec" /\ made.op = "from_vec" /\ OnConstructed
    /\ Unwrap(last.self).pixel_elems = 4
    /\ Len(made.args.data) = 8
    /\ made.args.data[1] # made.args.data[2]
    /\ made.args.data[5] # made.args.data[1]

\* C2: every buffer new (u8 or u16) returns Ok has one of the four channel
\* combinations and a pixel_elems that agrees with it.
C2_NewLegalCombination ==
    (made.op = "new" /\ made.res.tag = "Ok") => LegalBuffer(made.res.val)

\* C3: after any sequence of public operations every populated channel vector of
\* the buffer has width * height elements.
C3_ChannelLengthInvariant ==
    IsSome(img) => ChannelLengthsOk(Unwrap(img))

\* C4: into_luma of a validly constructed buffer of any legal channel combination
\* returns a luma-only u16 buffer of the same width, height and metadata.
C4_IntoLumaTotal ==
    (last.op = "into_luma" /\ OnConstructed /\ LegalBuffer(Unwrap(last.self)))
        => /\ last.res.tag = "Ok"
           /\ last.res.val.kind = "u16"
           /\ Populated(last.res.val) = {"luma"}
           /\ last.res.val.pixel_elems = 1
           /\ last.res.val.width = Unwrap(last.self).width
           /\ last.res.val.height = Unwrap(last.self).height
           /\ last.res.val.meta = Unwrap(last.self).meta

\* C5: into_luma_alpha of a buffer with alpha returns a u16 buffer with exactly luma
\* and alpha, the alpha rescaled to 16 bits; without alpha it returns luma only.
C5_IntoLumaAlpha ==
    (last.op = "into_luma_alpha" /\ OnConstructed /\ LegalBuffer(Unwrap(last.self))
        /\ Unwrap(last.self).kind \in {"u8", "u16"})
        => LET b == Unwrap(last.self) IN
           /\ last.res.tag = "Ok"
           /\ IF IsSome(b.alpha)
              THEN /\ Populated(last.res.val) = {"luma", "alpha"}
                   /\ last.res.val.pixel_elems = 2
                   /\ last.res.val.alpha =
                         Some([i \in 1..Len(Unwrap(b.alpha)) |->
                                  IF b.kind = "u8" THEN Unwrap(b.alpha)[i] * 256
                                  ELSE Unwrap(b.alpha)[i]])
              ELSE /\ Populated(last.res.val) = {"luma"}
                   /\ last.res.val.pixel_elems = 1

----------------------------------------------------------------------------
(* Properties of the exposure controller, stated on the last call.        *)

OnFind == last.op = "find_optimum_exposure"
FindCfg == Unwrap(last.self)
FindLen == Len(last.args.img)
Validated == OnFind /\ Validate(FindCfg, FindLen) = ""
ControlIndex == Coord(FindCfg, FindLen, overflow_checks)
ControlSample == ControlValue(FindCfg, last.args.img, overflow_checks)

\* the control value was read from the samples and lies within the uncertainty of the target
WithinUncertainty ==
    /\ FindCfg.pixel_tgt # NaN
    /\ FindCfg.pixel_uncertainty # NaN
    /\ ControlSample.tag = "Ok"
    /\ IsSome(ControlSample.val)
    /\ Abs(ToLevel(FindCfg.pixel_tgt) - Unwrap(ControlSample.val) * MilliScale)
           < ToLevel(FindCfg.pixel_uncertainty)

\* the call passed the validation, left the dead band and returned
Computed ==
    /\ Validated
    /\ last.res.tag = "Ok"
    /\ ~InDeadBand(ToLevel(FindCfg.pixel_tgt), ToLevel(FindCfg.pixel_uncertainty),
                   ControlSample.val)

Estimated == Estimate(FindCfg, ControlSample.val, last.args.exposure).val
Traded == Trade(FindCfg, Estimated, last.args.bin, overflow_checks).val.exp
Returned == [exposure |-> last.res.val[1], bin |-> last.res.val[2]]

\* C6: every call whose input passes the validation (any number of samples,
\* zero included, any pixel_exclusion up to the number of samples, any bin, any
\* max_allowed_bin) returns Ok: nothing after the validation aborts.
C6_ValidatedCallReturnsOk == Validated => last.res.tag = "Ok"

\* C7: with n samples and pixel_exclusion = e < n, the control value is read
\* from an index of the sorted samples no greater than n-1-e.
C7_ControlIndexBelowExcluded ==
    (Validated /\ FindCfg.pixel_exclusion < FindLen)
        => /\ ControlIndex.tag = "Ok"
           /\ ControlIndex.val <= FindLen - 1 - FindCfg.pixel_exclusion

\* C8: when the sample at the selected index is within pixel_uncertainty of
\* pixel_tgt (both times 65535), the call returns exactly the exposure and the
\* bin it was given.
C8_DeadBandReturnsInput ==
    (Validated /\ WithinUncertainty)
        => last.res = Ok(<<last.args.exposure, last.args.bin>>)

\* a dead-band call whose exposure is above max_allowed_exp and whose bin is
\* above max_allowed_bin, returned as given
C8_Witness ==
    /\ Validated
    /\ WithinUncertainty
    /\ DGt(last.args.exposure, FindCfg.max_allowed_exp)
    /\ last.args.bin > FindCfg.max_allowed_bin
    /\ last.res = Ok(<<last.args.exposure, last.args.bin>>)

InFraction(x, lo) == x # NaN /\ lo <= x /\ x <= FracOne

\* C10: the call returns Err whenever pixel_tgt or pixel_uncertainty is outside
\* [1.6e-5, 1], percentile_pix is outside [0, 1], min_allowed_exp >=
\* max_allowed_exp, or pixel_exclusion exceeds the number of samples; and
\* percentile_pix = 1 is not a reason for an Err.
C10_InvalidInputRejected ==
    OnFind =>
        /\ (\/ ~InFraction(FindCfg.pixel_tgt, FracMin)
            \/ ~InFraction(FindCfg.pixel_uncertainty, FracMin)
            \/ ~InFraction(FindCfg.percentile_pix, 0)
            \/ DGe(FindCfg.min_allowed_exp, FindCfg.max_allowed_exp)
            \/ FindCfg.pixel_exclusion > FindLen) => last.res.tag = "Err"
        /\ (/\ FindCfg.percentile_pix = FracOne
            /\ InFraction(FindCfg.pixel_tgt, FracMin)
            /\ InFraction(FindCfg.pixel_uncertainty, FracMin)
            /\ FindCfg.pixel_exclusion <= FindLen) => last.res.tag # "Err"

\* C11: new returns None whenever percentile_pix is outside [0, 1], pixel_tgt or
\* pixel_tol is outside [1.6e-5, 1] or min_exposure >= max_exposure, and Some
\* otherwise.
C11_NewRejectsInvalid ==
    last.op = "config_new" =>
        (last.res = None <=>
            \/ ~InFraction(last.args.percentile_pix, 0)
            \/ ~InFraction(last.args.pixel_tgt, FracMin)
            \/ ~InFraction(last.args.pixel_tol, FracMin)
            \/ DGe(last.args.min_exposure, last.args.max_exposure))

----------------------------------------------------------------------------
(* Properties of the conversions to and from the packed image.            *)

\* C12: converting an f32 buffer of 1 or 2 channels to the packed image fails with
\* an error value; it does not abort.
C12_FloatGrayFailsRecoverably ==
    (/\ last.op = "into_dynamic_image"
     /\ OnConstructed
     /\ Unwrap(last.self).kind = "f32"
     /\ Unwrap(last.self).pixel_elems \in {1, 2}) => last.res.tag = "Err"

\* C13: TryInto of a buffer with pixel_elems = 3 to an Rgb image buffer, or of one
\* with pixel_elems = 2 to a LumaA image buffer, returns Ok with the re-interleaved
\* data, so an image buffer converted to a SerialImageBuffer and back is itself.
C13_TryIntoImageBufferRoundTrip ==
    (/\ last.op = "try_into_image_buffer"
     /\ OnConstructed
     /\ Unwrap(last.self).pixel_elems \in {2, 3}
     /\ Unwrap(last.self).width * Unwrap(last.self).height > 0
     /\ last.args.channels = Unwrap(last.self).pixel_elems)
        => /\ last.res.tag = "Ok"
           /\ Ok(last.res.val.raw) = into_vec(Unwrap(last.self))
           /\ made.op = "from_image_buffer" => last.res.val = made.args.image

\* the pairs of element type and channel count that have a packed representation
HasPackedForm(b) ==
    \/ b.kind \in {"u8", "u16"} /\ b.pixel_elems \in 1..4
    \/ b.kind = "f32" /\ b.pixel_elems \in {3, 4}

\* the packed image was converted from the buffer exactly as its constructor returned it
ConvertedConstructed == made.res.tag = "Ok" /\ conv.self = Some(made.res.val)

\* C14: a buffer built by a successful constructor, of an element type and channel
\* count that have a packed representation, converts to a DynamicImage, and
\* TryFrom<DynamicImage> of that image gives a buffer of the same width, height,
\* pixel_elems and channel vectors.
C14_PackedRoundTrip ==
    /\ (last.op = "into_dynamic_image" /\ OnConstructed /\ HasPackedForm(Unwrap(last.self)))
          => last.res.tag = "Ok"
    /\ (/\ last.op = "try_from_dynamic_image"
        /\ ConvertedConstructed
        /\ HasPackedForm(made.res.val)
        /\ last.args.kind = made.res.val.kind)
          => /\ last.res.tag = "Ok"
             /\ last.res.val.width = made.res.val.width
             /\ last.res.val.height = made.res.val.height
             /\ last.res.val.pixel_elems = made.res.val.pixel_elems
             /\ \A ch \in ChannelNames : last.res.val[ch] = made.res.val[ch]

----------------------------------------------------------------------------
(* Properties of the constructors.                                         *)

\* Len(data) is an exact multiple of width * height (the product of the two
\* numbers, above usize::MAX or not) with a quotient in 1..4
ExactChannels(width, height, len) ==
    /\ ~MulOverflows(width, height)
    /\ width * height # 0
    /\ len % (width * height) = 0
    /\ len \div (width * height) \in 1..4

\* len = width * height (the product of the two numbers)
IsArea(width, height, len) == ~MulOverflows(width, height) /\ len = width * height

\* C15: from_vec returns an error when width*height = 0, when the length of data
\* is no multiple of width*height, or when the quotient is 0 or above 4; in every
\* other case it returns a buffer with pixel_elems = len/(width*height) and no
\* metadata.
C15_FromVecValidation ==
    made.op = "from_vec" =>
        LET a == made.args IN
        IF ~ExactChannels(a.width, a.height, Len(a.data))
        THEN made.res.tag = "Err" /\ (last = made => img = None)
        ELSE /\ made.res.tag = "Ok"
             /\ made.res.val.pixel_elems = Len(a.data) \div (a.width * a.height)
             /\ made.res.val.meta = None
             /\ made.res.val.width = a.width
             /\ made.res.val.height = a.height

\* C16: new (u8, u16) returns an error when width*height = 0, when one or two of
\* red, green and blue are given, when luma is given together with a colour
\* channel, or when a given channel has a length other than width*height; on an
\* error no buffer is produced.
C16_NewValidation ==
    made.op = "new" =>
        LET a == made.args
            colors == Cardinality({ch \in {"red", "green", "blue"} : IsSome(a[ch])})
        IN
        (\/ a.width = 0
         \/ a.height = 0
         \/ colors \in {1, 2}
         \/ IsSome(a.luma) /\ colors > 0
         \/ \E ch \in ChannelNames :
               IsSome(a[ch]) /\ ~IsArea(a.width, a.height, Len(Unwrap(a[ch]))))
            => made.res.tag = "Err" /\ (last = made => img = None)

----------------------------------------------------------------------------
(* Properties of DynamicSerialImage.                                       *)

----------------------------------------------------------------------------
(* Properties of the lookup tables.                                        *)

TableNames == {LutNames[k] : k \in 1..Len(LutNames)}

\* every entry a thread has read was read from a complete cell and is the entry
\* the initialiser computes
ReadsInitialised ==
    \A t \in Threads : \A n \in 1..Len(threads[t].seen) :
        LET rec == threads[t].seen[n] IN
        /\ rec.state = "complete"
        /\ rec.entry = Some(LutInit(rec.name)[rec.index])

----------------------------------------------------------------------------
(* Properties of ImageMetaData.                                            *)

MetaFields == DOMAIN DefaultMeta

\* C19: after add_extended_attrib(k_1, v_1), ..., add_extended_attrib(k_n, v_n) on
\* any metadata object, get_extended_data() is the list the object had before
\* followed by (k_1, v_1), ..., (k_n, v_n) in call order, duplicates included, and
\* every other field is what it was.
C19_ExtendedAttribsAppendOnly ==
    IsSome(metadata) =>
        LET initial == Unwrap(attribs.initial)
            now == Unwrap(metadata)
        IN /\ get_extended_data(now) = get_extended_data(initial) \o attribs.calls
           /\ \A f \in MetaFields \ {"extended_metadata"} : now[f] = initial[f]

\* an object that had one attribute was given the same key twice and then another key
C19_Witness ==
    /\ IsSome(metadata)
    /\ Len(get_extended_data(Unwrap(attribs.initial))) = 1
    /\ Len(attribs.calls) = 3
    /\ attribs.calls[1][1] = attribs.calls[2][1]
    /\ attribs.calls[3][1] # attribs.calls[1][1]
    /\ Len(get_extended_data(Unwrap(metadata))) = 4

----------------------------------------------------------------------------
(* Properties of the serialized form.                                      *)

\* C20: a DynamicSerialImage of any variant, with or without metadata, with or
\* without extended attributes, with None channels, is encoded, and decoding the
\* result gives a value equal to the original (the extended attributes in the
\* same order).
C20_SerdeRoundTrip ==
    /\ last.op = "to_string" => last.res.tag = "Ok"
    /\ last.op = "from_str" =>
          /\ last.res.tag = "Ok"
          /\ PartialEq(Unwrap(last.self), last.res.val)

----------------------------------------------------------------------------
(* The binning trade of find_optimum_exposure (src/src/optimalexposure.rs  *)
(* 148-164) one iteration at a time: the call enters the if, runs one of   *)
(* the two while loops and leaves with tgt_exp and bin_.                   *)

TradeFrame == UNCHANGED <<overflow_checks, img, made, last, nops, cfg, conv, dimg, luts, threads, metadata, attribs, camera>>

\* estimates from zero to far above every limit, and the limits
TradeEstimates == {from_nanos(0), from_nanos(1), from_nanos(1000), from_nanos(16000), Duration(1, 0), Duration(U16Max, 0)}
TradeLimits == {from_nanos(0), from_nanos(1000), from_nanos(16000)}
TradeBins == {0, 1, 2, 3, 8, 128, 255}
TradeMaxBins == {2, 3, 16, 32768, U16Max}

\* if change_bin { let mut tgt_exp = target_exposure; let mut bin_ = bin;
\*                 if tgt_exp < max_allowed_exp {
TradeEnter ==
    /\ trade.pc = "idle"
    /\ \E est \in TradeEstimates, bin \in TradeBins, max_exp \in TradeLimits, max_bin \in TradeMaxBins :
          trade' = [pc |-> IF DLt(est, max_exp) THEN "halve" ELSE "double",
                    tgt_exp |-> est, bin_ |-> bin,
                    max_allowed_exp |-> max_exp, max_allowed_bin |-> max_bin,
                    target_exposure |-> est, bin |-> bin]
    /\ TradeFrame

HalveCondition == DLt(trade.tgt_exp, trade.max_allowed_exp) /\ trade.bin_ > 2

\* bin_ /= 2
HalveBin(bin) == bin \div 2

\* while tgt_exp < max_allowed_exp && bin_ > 2 { bin_ /= 2; tgt_exp *= 4; }
HalveIterate ==
    /\ trade.pc = "halve"
    /\ HalveCondition
    /\ trade' = [trade EXCEPT !.bin_ = HalveBin(@), !.tgt_exp = DMul4(@)]
    /\ TradeFrame

HalveExit ==
    /\ trade.pc = "halve"
    /\ ~HalveCondition
    /\ trade' = [trade EXCEPT !.pc = "done"]
    /\ TradeFrame

\* bin_ * 2 leaves u16
DoubleOverflows == trade.bin_ * 2 > U16Max

\* bin_ * 2 as the build computes it where it does not abort
DoubledBin == (trade.bin_ * 2) % (U16Max + 1)

DoubleCondition == DGt(trade.tgt_exp, trade.max_allowed_exp) /\ DoubledBin <= trade.max_allowed_bin

\* while tgt_exp > max_allowed_exp && bin_ * 2 <= max_allowed_bin { bin_ *= 2; tgt_exp /= 4; }
DoubleIterate ==
    /\ trade.pc = "double"
    /\ ~(overflow_checks /\ DGt(trade.tgt_exp, trade.max_allowed_exp) /\ DoubleOverflows)
    /\ DoubleCondition
    /\ trade' = [trade EXCEPT !.bin_ = DoubledBin, !.tgt_exp = DDiv4(@)]
    /\ TradeFrame

\* the product is evaluated when the first conjunct holds; with overflow checks it aborts the call
DoublePanic ==
    /\ trade.pc = "double"
    /\ overflow_checks /\ DGt(trade.tgt_exp, trade.max_allowed_exp) /\ DoubleOverflows
    /\ trade' = [trade EXCEPT !.pc = "panic"]
    /\ TradeFrame

DoubleExit ==
    /\ trade.pc = "double"
    /\ ~(overflow_checks /\ DGt(trade.tgt_exp, trade.max_allowed_exp) /\ DoubleOverflows)
    /\ ~DoubleCondition
    /\ trade' = [trade EXCEPT !.pc = "done"]
    /\ TradeFrame

NextTrade ==
    \/ TradeEnter
    \/ HalveIterate
    \/ HalveExit
    \/ DoubleIterate
    \/ DoublePanic
    \/ DoubleExit

\* the thread that runs the call is scheduled again and again
SpecTrade == InitExposure /\ [][NextTrade]_vars /\ WF_vars(NextTrade)

----------------------------------------------------------------------------
(* find_optimum_exposure in closed loop: the pair it returns sets the      *)
(* camera, the camera takes the next frame with it, and the control sample *)
(* of that frame goes into the next call.  The sensor is linear: a pixel   *)
(* reads gain * exposure, and binning adds bin * bin pixels.               *)

\* gains in counts per nanosecond, in units of 1/GainScale
GainScale == 1000
Gains == {6553, 13107}

\* the control sample of a frame, and whether it is within the range of a u16
Sample(gain, exposure, bin) == ((gain * (exposure.secs * NanosPerSec + exposure.nanos)) \div GainScale) * bin * bin
Saturates(gain, exposure, bin) == Sample(gain, exposure, bin) > U16Max

\* valid configurations with binning disabled (max_bin 1) and enabled (max_bin 4)
ConfigNewLoop == ConfigNew({0}, {5000000}, {FracMin}, {0}, {0}, {4000, 16000}, {1, 4})

\* the camera starts with some exposure and binning
CameraStart ==
    /\ last.op = "config_new"
    /\ IsSome(cfg)
    /\ camera.pc = "off"
    /\ \E gain \in Gains, exposure \in {1000, 2143, 2500}, bin \in {1, 2} :
          camera' = [pc |-> "on", gain |-> gain, exposure |-> from_nanos(exposure), bin |-> bin]
    /\ UNCHANGED <<overflow_checks, img, made, last, nops, cfg, conv, dimg, luts, threads, metadata, attribs, trade>>

\* one frame and one call: the returned pair is fed back
ClosedLoopStep ==
    /\ camera.pc = "on"
    /\ ~Saturates(camera.gain, camera.exposure, camera.bin)
    /\ LET image == <<Sample(camera.gain, camera.exposure, camera.bin)>>
           r == find_optimum_exposure(Unwrap(cfg), image, camera.exposure, camera.bin, overflow_checks)
       IN /\ last' = Call("find_optimum_exposure",
                          [img |-> image, exposure |-> camera.exposure, bin |-> camera.bin], cfg, r)
          /\ camera' = IF last'.res.tag = "Ok"
                       THEN [camera EXCEPT !.exposure = last'.res.val[1], !.bin = last'.res.val[2]]
                       ELSE [camera EXCEPT !.pc = "failed"]
    /\ UNCHANGED <<overflow_checks, img, made, nops, cfg, conv, dimg, luts, threads, metadata, attribs, trade>>

\* the frame would saturate: the sensor is no longer linear
CameraSaturates ==
    /\ camera.pc = "on"
    /\ Saturates(camera.gain, camera.exposure, camera.bin)
    /\ camera' = [camera EXCEPT !.pc = "saturated"]
    /\ UNCHANGED <<overflow_checks, img, made, last, nops, cfg, conv, dimg, luts, threads, metadata, attribs, trade>>

NextClosedLoop ==
    \/ ConfigNewLoop
    \/ CameraStart
    \/ ClosedLoopStep
    \/ CameraSaturates

\* the controller is called for every frame
SpecClosedLoop == InitExposure /\ [][NextClosedLoop]_vars /\ WF_vars(NextClosedLoop)

----------------------------------------------------------------------------
(* Properties of the control value and of the binning trade.              *)

\* the sample that has index k when the samples are put in ascending order
OrderStat(s, k) ==
    CHOOSE v \in {s[i] : i \in 1..Len(s)} :
        /\ Cardinality({i \in 1..Len(s) : s[i] < v}) <= k
        /\ k < Cardinality({i \in 1..Len(s) : s[i] <= v})

\* the sequences that hold the samples of s in another order
Reorderings(s) ==
    {[i \in 1..Len(s) |-> s[f[i]]] :
        f \in {g \in [1..Len(s) -> 1..Len(s)] : \A i, j \in 1..Len(s) : g[i] = g[j] => i = j}}

\* the call passed the validation with samples and no excluded pixels
NoExclusion == Validated /\ FindLen >= 1 /\ FindCfg.pixel_exclusion = 0

LevelTimesExposure(level, exposure) ==
    LET sub == exposure.nanos % NanosPerMicro IN
    level * (exposure.nanos \div NanosPerMicro)
        + (level \div NanosPerMicro) * sub + ((level % NanosPerMicro) * sub) \div NanosPerMicro

\* d within [lo, hi]
Clamped(d, lo, hi) == IF DGt(d, hi) THEN hi ELSE IF DLt(d, lo) THEN lo ELSE d

\* C22: with max_allowed_bin < 2 and outside the dead band, the returned exposure is
\* current_exposure * (pixel_tgt * 65535) / val clamped to [min_allowed_exp,
\* max_allowed_exp] and the returned bin is 1, whatever the input bin.
C22_BinningDisabledScalesExposure ==
    (/\ Computed
     /\ FindCfg.max_allowed_bin < 2
     /\ IsSome(ControlSample.val)
     /\ Unwrap(ControlSample.val) > 0)
        => /\ Returned.exposure =
                 Clamped(from_nanos(LevelTimesExposure(ToLevel(FindCfg.pixel_tgt), last.args.exposure)
                                        \div Unwrap(ControlSample.val)),
                         FindCfg.min_allowed_exp, FindCfg.max_allowed_exp)
           /\ Returned.bin = 1

\* C24: for validated input with n >= 1 samples and any pixel_exclusion <= n the
\* percentile index is within 0..n-1, so the lookup of the sample succeeds and the
\* 1e-5 fallback is never taken.
C24_ControlIndexInRange ==
    (Validated /\ FindLen >= 1 /\ FindCfg.pixel_exclusion <= FindLen)
        => /\ ControlIndex.tag = "Ok"
           /\ 0 <= ControlIndex.val
           /\ ControlIndex.val <= FindLen - 1
           /\ ControlSample.tag = "Ok"
           /\ IsSome(ControlSample.val)

\* the call left the dead band with binning enabled and returned
ComputedWithBinning == Computed /\ FindCfg.max_allowed_bin >= 2

\* the pair the binning trade produced, before the clamps
TradedPair == Trade(FindCfg, Estimated, last.args.bin, overflow_checks).val

\* at most this many factors of 2 lie between two bins of 16 bits
MaxTradeSteps == 16

RECURSIVE Pow2(_)
Pow2(k) == IF k = 0 THEN 1 ELSE 2 * Pow2(k - 1)

\* d * 4^k and d / 4^k, a factor of 4 at a time
RECURSIVE TimesPow4(_, _)
TimesPow4(d, k) == IF k = 0 THEN d ELSE TimesPow4(DMul4(d), k - 1)

RECURSIVE OverPow4(_, _)
OverPow4(d, k) == IF k = 0 THEN d ELSE OverPow4(DDiv4(d), k - 1)

\* C25: with binning enabled and outside the dead band, an estimate below
\* max_allowed_exp has its bin halved and its exposure multiplied by 4 while
\* exposure < max_allowed_exp and bin > 2; any other estimate has its bin doubled
\* and its exposure divided by 4 while exposure > max_allowed_exp and 2 * bin <=
\* max_allowed_bin.  Every step is a factor of 4 in exposure for a factor of 2 in
\* bin, and a doubling never gives a bin above max_allowed_bin.
C25_BinningTradeSteps ==
    ComputedWithBinning =>
        LET max_exp == FindCfg.max_allowed_exp
            bin == last.args.bin
        IN
        IF DLt(Estimated, max_exp)
        THEN \E k \in 0..MaxTradeSteps :
                /\ TradedPair.exp = TimesPow4(Estimated, k)
                /\ TradedPair.bin * Pow2(k) = bin
                /\ \A j \in 0..(k - 1) :
                      DLt(TimesPow4(Estimated, j), max_exp) /\ bin > 2 * Pow2(j)
                /\ ~(DLt(TradedPair.exp, max_exp) /\ TradedPair.bin > 2)
        ELSE \E k \in 0..MaxTradeSteps :
                /\ TradedPair.exp = OverPow4(Estimated, k)
                /\ TradedPair.bin = bin * Pow2(k)
                /\ k > 0 => TradedPair.bin <= FindCfg.max_allowed_bin
                /\ \A j \in 0..(k - 1) :
                      /\ DGt(OverPow4(Estimated, j), max_exp)
                      /\ bin * Pow2(j + 1) <= FindCfg.max_allowed_bin
                /\ ~(DGt(TradedPair.exp, max_exp)
                       /\ 2 * TradedPair.bin <= FindCfg.max_allowed_bin)

\* C26: with binning enabled and outside the dead band, no pair with the same
\* exposure * bin^2 that is reached from the estimate by doubling or halving the
\* bin, and whose bin is at most max_allowed_bin, has a smaller exposure than the
\* pair the trade produces.
C26_TradeMinimisesExposure ==
    (ComputedWithBinning /\ last.args.bin >= 1) =>
        LET bin == last.args.bin IN
        /\ \A k \in 0..MaxTradeSteps :
              bin * Pow2(k) <= FindCfg.max_allowed_bin
                  => ~DLt(OverPow4(Estimated, k), TradedPair.exp)
        /\ \A k \in 1..MaxTradeSteps :
              (bin % Pow2(k) = 0 /\ bin \div Pow2(k) <= FindCfg.max_allowed_bin)
                  => ~DLt(TimesPow4(Estimated, k), TradedPair.exp)

\* the call has left the binning trade: past the loops, or aborted
TradeLeft == trade.pc \in {"done", "panic"}

\* the loops taken one iteration at a time end with the pair BinningTrade computes
TradeAgreesWithBinningTrade ==
    TradeLeft =>
        LET r == BinningTrade(trade.target_exposure, trade.bin, trade.max_allowed_exp,
                              trade.max_allowed_bin, overflow_checks)
        IN IF trade.pc = "panic" THEN r.tag = "Panic"
           ELSE r = Ok([exp |-> trade.tgt_exp, bin |-> trade.bin_])

\* C29: every call that enters the binning trade leaves it, for every input bin
\* (0 included), every max_allowed_bin and every estimate: the halving loop and
\* the doubling loop both exit after finitely many iterations.
C29_TradeTerminates == (trade.pc \in {"halve", "double"}) ~> TradeLeft

\* a call with bin 0 far above the limit has left the doubling loop: the bin
\* stayed 0 and the exposure was divided down to the limit
C29_Witness ==
    /\ trade.pc = "done"
    /\ trade.bin = 0
    /\ trade.bin_ = 0
    /\ trade.target_exposure = Duration(U16Max, 0)
    /\ trade.max_allowed_exp = from_nanos(0)
    /\ trade.tgt_exp = from_nanos(0)

\* the last call returned the pair it was given
ReturnedUnchanged ==
    /\ last.op = "find_optimum_exposure"
    /\ last.res = Ok(<<last.args.exposure, last.args.bin>>)

\* C30: in closed loop with a linear sensor that does not saturate and a fixed
\* valid configuration, binning enabled or disabled, the controller reaches
\* after finitely many calls a pair it returns unchanged and stays there for
\* ever: it does not go on changing the pair.
C30_ClosedLoopSettles == <>[](camera.pc = "saturated" \/ ReturnedUnchanged)

----------------------------------------------------------------------------
(* Properties of the luma conversion and of from_vec's placement.          *)

\* into_luma was called on an RGB buffer of the element type, built by a constructor
OnRgbLuma(kind) ==
    /\ last.op = "into_luma"
    /\ OnConstructed
    /\ LET b == Unwrap(last.self) IN
       b.kind = kind /\ b.pixel_elems = 3 /\ Populated(b) = {"red", "green", "blue"}

\* the float luma computed with the weights of the lookup tables
F32LumaWithLutWeights(r, g, b) ==
    F32AsU16(RoundDiv(RedWeightLut * r + GreenWeightLut * g + BlueWeightLut * b,
                      WeightScale * FloatScale))

\* C28: into_luma weighs red, green and blue of a float buffer with the weights
\* of the lookup tables used for 8-bit and 16-bit buffers: the luma of a float
\* RGB pixel is the weighted sum taken with the table weights.
C28_SameWeightsForFloat ==
    OnRgbLuma("f32") =>
        LET b == Unwrap(last.self) IN
        /\ last.res.tag = "Ok"
        /\ \A i \in 1..(b.width * b.height) :
              Unwrap(last.res.val.luma)[i]
                  = F32LumaWithLutWeights(Unwrap(b.red)[i], Unwrap(b.green)[i], Unwrap(b.blue)[i])

\* the channels from_vec fills for a pixel of c elements, in the order of the
\* elements of the pixel
ChannelOrder(c) ==
    IF c = 1 THEN <<"luma">>
    ELSE IF c = 2 THEN <<"luma", "alpha">>
    ELSE IF c = 3 THEN <<"red", "green", "blue">>
    ELSE <<"red", "green", "blue", "alpha">>

OnFromVecOk == made.op = "from_vec" /\ made.res.tag = "Ok"

\* C27: from_vec places element c*i + j of data (c elements per pixel, 0-based)
\* at index i of the j-th channel of the pixel: luma, alpha for c = 2; red, green,
\* blue for c = 3; red, green, blue, alpha for c = 4; for c = 1 the data is the
\* luma channel; every other channel is None.
C27_DeinterleavePlacement ==
    OnFromVecOk =>
        LET data == made.args.data
            b == made.res.val
            n == made.args.width * made.args.height
            c == Len(data) \div n
            order == ChannelOrder(c)
        IN
        /\ Populated(b) = {order[j] : j \in 1..c}
        /\ \A j \in 1..c :
              /\ Len(Unwrap(b[order[j]])) = n
              /\ \A i \in 0..(n - 1) : Unwrap(b[order[j]])[i + 1] = data[c * i + (j - 1) + 1]
        /\ c = 1 => b.luma = Some(data)

\* a multi-channel image of more than one pixel whose pixels differ
C27_Witness ==
    /\ OnFromVecOk
    /\ made.res.val.pixel_elems = 2
    /\ made.args.width * made.args.height = 4
    /\ made.res.val.luma = Some(<<0, 255, 255, 0>>)
    /\ made.res.val.alpha = Some(<<255, 255, 0, 0>>)

\* C23: for every 16-bit RGB pixel, (65535, 65535, 65535) included, the sum of the
\* three table entries is at most 65535: into_luma returns that sum as the luma
\* without overflow, and pure white gets the brightest luma.
C23_LutSumFitsU16 ==
    OnRgbLuma("u16") =>
        LET b == Unwrap(last.self) IN
        \A i \in 1..(b.width * b.height) :
            LET sum == get_red_lut_16(Unwrap(b.red)[i]) + get_green_lut_16(Unwrap(b.green)[i])
                           + get_blue_lut_16(Unwrap(b.blue)[i])
            IN /\ sum <= U16Max
               /\ last.res.tag = "Ok"
               /\ Unwrap(last.res.val.luma)[i] = sum
               /\ (Unwrap(b.red)[i] = U16Max /\ Unwrap(b.green)[i] = U16Max
                      /\ Unwrap(b.blue)[i] = U16Max) => Unwrap(last.res.val.luma)[i] = U16Max

=============================================================================
